---- MODULE Spec2Model ----
(***************************************************************************)
(* Model of analysis/postprocess/fft_plot.py: the RerunReader.iter_tables  *)
(* generator that re-chunks upstream record batches, the                   *)
(* FrequencyDomainAverage accumulator, and the module-level processing and *)
(* plotting loops that drive them.                                         *)
(*                                                                         *)
(* Three specifications share the variables:                               *)
(*   Spec        the script (lines 84-172): loop over iter_tables, update  *)
(*               of the accumulators, plotting;                            *)
(*   SpecReader  iter_tables alone, drained by a caller that keeps calling *)
(*               next() until the generator ends or raises;                *)
(*   SpecAvg     one FrequencyDomainAverage object, called directly.       *)
(***************************************************************************)
EXTENDS Bags, FiniteSets, Integers, Sequences, TLC

(* ---------------------------------------------------------------------- *)
(* Bounds of the model                                                     *)
(* ---------------------------------------------------------------------- *)
MaxN == 3            \* largest window length num_rows / accumulator size n
MaxBatches == 3      \* largest number of batches the upstream reader yields
MaxBatchRows == 3    \* largest number of rows in one upstream batch
MaxLen == 2          \* SpecAvg: largest n, window length and array length
MaxUpdates == 2      \* SpecAvg: largest number of successful update calls
MaxSample == 1       \* SpecAvg: samples of a signal are in 0..MaxSample

VARIABLES
    num_rows,      \* iter_tables argument (N of the script)
    range_secs,    \* iter_tables argument: "None" or "set"
    upstream,      \* the batches the reader will yield, each a sequence of rows
    next_batch,    \* index in upstream of the batch the reader yields next
    queried,       \* self.rec.view(...) has been called
    filtered,      \* view.filter_range_secs(...) has been applied
    batch_list,    \* local of iter_tables: list of batches
    count_rows,    \* local of iter_tables
    gen_pc,        \* position of the generator frame
    demand,        \* a caller is blocked in next() on the generator
    yielded,       \* rows of the table handed over by the last yield
    out,           \* every table yielded so far: [rows, line]
    i,             \* enumerate index of the processing loop
    loop_pc,       \* position of the script
    fft_avgs,      \* entity -> FrequencyDomainAverage (fft_fn)
    psd_avgs,      \* entity -> FrequencyDomainAverage (psd_fn)
    plots,         \* what the plotting loops read from get_freq_domain
    avg,           \* SpecAvg: the accumulator under direct call
    ret,           \* SpecAvg: outcome of the last call on avg
    hist           \* SpecAvg: bag of the arguments of the update calls that
                   \* returned

readerVars == <<num_rows, range_secs, upstream, next_batch, queried, filtered,
                batch_list, count_rows, gen_pc, demand, yielded, out>>
scriptVars == <<i, loop_pc, fft_avgs, psd_avgs, plots>>
avgVars == <<avg, ret, hist>>
vars == <<readerVars, scriptVars, avgVars>>

(* ---------------------------------------------------------------------- *)
(* Python and pyarrow helpers                                              *)
(* ---------------------------------------------------------------------- *)
Min(a, b) == IF a < b THEN a ELSE b
Max(a, b) == IF a > b THEN a ELSE b

\* Python's clamping of one slice index against a list of length len.
PyIndex(idx, len) == IF idx < 0 THEN Max(idx + len, 0) ELSE Min(idx, len)

\* s[start:stop] of a Python list (0-based, half-open, negative indices).
PySlice(s, start, stop) ==
    LET lo == PyIndex(start, Len(s))
        hi == PyIndex(stop, Len(s))
    IN  [j \in 1..Max(hi - lo, 0) |-> s[lo + j]]

\* s[0:stop]
PySliceTo(s, stop) == PySlice(s, 0, stop)

\* s[start:]
PySliceFrom(s, start) == PySlice(s, start, Len(s))

RECURSIVE Flatten(_)
\* Rows of pa.Table.from_batches(batches): the batches' rows, in order.
Flatten(batches) ==
    IF batches = <<>> THEN <<>>
    ELSE Head(batches) \o Flatten(Tail(batches))

\* pa.Table.from_batches raises ValueError on an empty list without schema.
FromBatchesRaises(batches) == batches = <<>>

RECURSIVE SumSeq(_)
SumSeq(s) == IF s = <<>> THEN 0 ELSE Head(s) + SumSeq(Tail(s))

\* Rows are numbered 1, 2, ... in upstream order: batch k of a reader whose
\* batches have the given sizes holds the rows after those of batches 1..k-1.
MkBatches(sizes) ==
    [k \in 1..Len(sizes) |->
        LET before == SumSeq(SubSeq(sizes, 1, k - 1))
        IN  [j \in 1..sizes[k] |-> before + j]]

BatchSizes == UNION {[1..k -> 0..MaxBatchRows] : k \in 0..MaxBatches}

(* ---------------------------------------------------------------------- *)
(* RerunReader.iter_tables                                                 *)
(* ---------------------------------------------------------------------- *)

\* Line 27: `range` is the builtin type, never None.
RangeIsNotNone == TRUE

\* Line 39
WindowReady(count, n) == count >= n

\* Line 40: batches handed to pa.Table.from_batches
Emitted(bl, n) == PySliceTo(bl, n)

\* Line 41 without the slice: the emitted batches stay in the list.
RetainedKeepsEmitted(bl, n) == bl

\* Line 41: batches kept for the next table
Retained(bl, n) == PySliceFrom(bl, n)

\* Lines 24-34, run by the first next(): build the view, apply the range
\* filter, select the columns, initialise the locals.
GenStart ==
    /\ gen_pc = "created"
    /\ demand
    /\ queried' = TRUE
    /\ IF RangeIsNotNone /\ range_secs = "None"
       THEN \* range_secs[0] on None: TypeError
            /\ gen_pc' = "raised"
            /\ demand' = FALSE
            /\ UNCHANGED filtered
       ELSE /\ filtered' = RangeIsNotNone
            /\ gen_pc' = "loop"
            /\ UNCHANGED demand
    /\ batch_list' = <<>>
    /\ count_rows' = 0
    /\ UNCHANGED <<num_rows, range_secs, upstream, next_batch, yielded, out>>

\* Lines 35-40: one iteration of `for batch in reader` up to the yield.
GenBatch ==
    /\ gen_pc = "loop"
    /\ demand
    /\ next_batch <= Len(upstream)
    /\ LET batch == upstream[next_batch]
           bl == Append(batch_list, batch)
           cnt == count_rows + Len(batch)
       IN  /\ next_batch' = next_batch + 1
           /\ batch_list' = bl
           /\ count_rows' = cnt
           /\ IF WindowReady(cnt, num_rows)
              THEN IF FromBatchesRaises(Emitted(bl, num_rows))
                   THEN /\ gen_pc' = "raised"
                        /\ demand' = FALSE
                        /\ UNCHANGED <<yielded, out>>
                   ELSE /\ gen_pc' = "yield40"
                        /\ demand' = FALSE
                        /\ yielded' = Flatten(Emitted(bl, num_rows))
                        /\ out' = Append(out, [rows |-> Flatten(Emitted(bl, num_rows)),
                                               line |-> 40])
              ELSE UNCHANGED <<gen_pc, demand, yielded, out>>
    /\ UNCHANGED <<num_rows, range_secs, upstream, queried, filtered>>

\* Lines 41-42, run when next() resumes the frame suspended at line 40.
GenResume ==
    /\ gen_pc = "yield40"
    /\ demand
    /\ batch_list' = Retained(batch_list, num_rows)
    /\ count_rows' = count_rows - num_rows
    /\ gen_pc' = "loop"
    /\ UNCHANGED <<num_rows, range_secs, upstream, next_batch, queried,
                   filtered, demand, yielded, out>>

\* Lines 44-46: the reader is exhausted.
GenLast ==
    /\ gen_pc = "loop"
    /\ demand
    /\ next_batch > Len(upstream)
    /\ IF Len(batch_list) > 0
       THEN /\ gen_pc' = "yield46"
            /\ yielded' = Flatten(batch_list)
            /\ out' = Append(out, [rows |-> Flatten(batch_list), line |-> 46])
       ELSE /\ gen_pc' = "done"
            /\ UNCHANGED <<yielded, out>>
    /\ demand' = FALSE
    /\ UNCHANGED <<num_rows, range_secs, upstream, next_batch, queried,
                   filtered, batch_list, count_rows>>

\* next() on the frame suspended at line 46: the function returns.
GenReturn ==
    /\ gen_pc = "yield46"
    /\ demand
    /\ gen_pc' = "done"
    /\ demand' = FALSE
    /\ UNCHANGED <<num_rows, range_secs, upstream, next_batch, queried,
                   filtered, batch_list, count_rows, yielded, out>>

\* A caller that drains the generator: it calls next() again after each table.
CallNext ==
    /\ gen_pc \in {"yield40", "yield46"}
    /\ ~demand
    /\ demand' = TRUE
    /\ UNCHANGED <<num_rows, range_secs, upstream, next_batch, queried,
                   filtered, batch_list, count_rows, gen_pc, yielded, out>>

(* ---------------------------------------------------------------------- *)
(* FrequencyDomainAverage                                                  *)
(*                                                                         *)
(* Numbers are kept exact.  A signal is [num, den]: the samples num[j]/den.*)
(* An element of `values` is a bag of terms and stands for their sum:      *)
(*   [fn |-> "fft", p2, scale]  is  2 * sqrt(p2 / 2) / scale               *)
(*   [fn |-> "psd", num, den]   is  num / den                              *)
(* where p2 is twice the squared modulus of a DFT coefficient.             *)
(* ---------------------------------------------------------------------- *)

\* 2*cos(2*pi*m/len) for the lengths where it is an integer.
TwoCos(len, m) ==
    CASE len = 1 -> 2
      [] len = 2 -> <<2, -2>>[m + 1]
      [] len = 3 -> <<2, -1, -1>>[m + 1]
      [] len = 4 -> <<2, 0, -2, 0>>[m + 1]
      [] len = 6 -> <<2, 1, -1, -2, -1, 1>>[m + 1]

RECURSIVE SumOver(_, _)
\* Sum of f[x] over the finite set S.
SumOver(f, S) ==
    IF S = {} THEN 0
    ELSE LET x == CHOOSE y \in S : TRUE
         IN  f[x] + SumOver(f, S \ {x})

\* 2*|F[k]|^2 for F = rfft(x), k = 0 .. len(x) // 2.
TwoPow(x, k) ==
    LET len == Len(x)
        pairs == (1..len) \X (1..len)
    IN  SumOver([p \in pairs |->
                    x[p[1]] * x[p[2]] * TwoCos(len, (k * (p[1] - p[2])) % len)],
                pairs)

\* Length of the numpy broadcast of two 1-D shapes, -1 when they do not
\* broadcast.
BroadcastLen(a, b) ==
    IF a = b THEN a
    ELSE IF a = 1 THEN b
    ELSE IF b = 1 THEN a
    ELSE -1

\* Element j of a 1-D array broadcast to a longer shape.
Elt(s, j) == IF Len(s) = 1 THEN s[1] ELSE s[j]

\* Lines 108-109: np.abs(2 * sp.fft.rfft(x) / len(x)); rfft raises on an
\* empty input.
fft_fn_raises(x) == Len(x.num) = 0
fft_fn(x, f) ==
    [k \in 1..(Len(x.num) \div 2 + 1) |->
        [fn |-> "fft", p2 |-> TwoPow(x.num, k - 1), scale |-> Len(x.num) * x.den]]

\* Lines 103-105: sp.signal.periodogram(x, f) with its defaults: boxcar
\* window, detrend='constant', one-sided, density scaling; an empty input
\* gives an empty result.
psd_fn(x, f) ==
    LET len == Len(x.num)
        total == SumSeq(x.num)
        y == [j \in 1..len |-> len * x.num[j] - total]
        doubled(k) == k >= 1 /\ (len % 2 = 1 \/ k < len \div 2)
    IN  IF len = 0 THEN <<>>
        ELSE [k \in 1..(len \div 2 + 1) |->
                [fn |-> "psd",
                 num |-> (IF doubled(k - 1) THEN 2 ELSE 1) * TwoPow(y, k - 1),
                 den |-> 2 * (x.den * len) * (x.den * len) * f * len]]

\* Lines 57-72.  The only check is that the window is 1-D, which every
\* window of the model is.
NewAvg(n, sampling_freq, rfreq_fn, window) ==
    [n |-> n, sampling_freq |-> sampling_freq, rfreq_fn |-> rfreq_fn,
     window |-> window,
     values |-> [k \in 1..(n \div 2 + 1) |-> EmptyBag],
     niter |-> 0]

\* Line 75: time_domain * self.window raises when the shapes do not broadcast.
TaperRaises(a, time_domain) ==
    BroadcastLen(Len(time_domain.num), Len(a.window)) = -1

\* Line 75
Tapered(a, time_domain) ==
    [num |-> [j \in 1..BroadcastLen(Len(time_domain.num), Len(a.window)) |->
                 Elt(time_domain.num, j) * Elt(a.window, j)],
     den |-> time_domain.den]

\* Length of self.rfreq_fn(w, self.sampling_freq)
ResultLen(a, w) ==
    IF Len(w.num) = 0 THEN 0 ELSE Len(w.num) \div 2 + 1

\* Line 76: the in-place += raises unless the result broadcasts to the shape
\* of self.values.
AddRaises(a, w) ==
    /\ ResultLen(a, w) # Len(a.values)
    /\ ResultLen(a, w) # 1

\* update raises (lines 75-76); nothing has been assigned when it does.
UpdateRaises(a, time_domain) ==
    \/ TaperRaises(a, time_domain)
    \/ /\ a.rfreq_fn = "fft_fn"
       /\ fft_fn_raises(Tapered(a, time_domain))
    \/ AddRaises(a, Tapered(a, time_domain))

\* Lines 74-77 with `=` in place of `+=` at line 76.
UpdatedOverwrites(a, time_domain) ==
    LET w == Tapered(a, time_domain)
        r == IF a.rfreq_fn = "fft_fn" THEN fft_fn(w, a.sampling_freq)
             ELSE psd_fn(w, a.sampling_freq)
    IN  [a EXCEPT !.values = [k \in 1..Len(a.values) |-> SetToBag({Elt(r, k)})],
                  !.niter = a.niter + 1]

\* Lines 74-77 with niter advanced by two.
UpdatedCountsTwice(a, time_domain) ==
    LET w == Tapered(a, time_domain)
        r == IF a.rfreq_fn = "fft_fn" THEN fft_fn(w, a.sampling_freq)
             ELSE psd_fn(w, a.sampling_freq)
    IN  [a EXCEPT !.values = [k \in 1..Len(a.values) |-> a.values[k] (+) SetToBag({Elt(r, k)})],
                  !.niter = a.niter + 2]

\* Lines 74-77 when nothing raises.
Updated(a, time_domain) ==
    LET w == Tapered(a, time_domain)
        r == IF a.rfreq_fn = "fft_fn" THEN fft_fn(w, a.sampling_freq)
             ELSE psd_fn(w, a.sampling_freq)
    IN  [a EXCEPT !.values = [k \in 1..Len(a.values) |-> a.values[k] (+) SetToBag({Elt(r, k)})],
                  !.niter = a.niter + 1]

\* update without line 77: niter is left as it was.
UpdateForgetsCount(a, time_domain) ==
    IF UpdateRaises(a, time_domain) THEN a
    ELSE [Updated(a, time_domain) EXCEPT !.niter = a.niter]

\* FrequencyDomainAverage.update: the object after the call.
Update(a, time_domain) ==
    IF UpdateRaises(a, time_domain) THEN a ELSE Updated(a, time_domain)

\* Lines 79-81.  freq[k] is the fraction <<k * fs, n>>; values / niter is
\* the pair of the sum and the count, and numpy's 0/0 when niter is 0.
get_freq_domain(a) ==
    IF a.n = 0 THEN [kind |-> "ZeroDivisionError"]
    ELSE [kind |-> IF a.niter = 0 THEN "nan" ELSE "avg",
          freq |-> [k \in 1..(a.n \div 2 + 1) |-> <<(k - 1) * a.sampling_freq, a.n>>],
          sum |-> a.values,
          niter |-> a.niter]

(* ---------------------------------------------------------------------- *)
(* The script (lines 84-172)                                               *)
(* ---------------------------------------------------------------------- *)

\* Line 85, scaled down from 50000 so that the cap is reached.
MAXITER == 1

\* Lines 91-98: two of the six logged entities are kept.
entities == {"accel_x", "ang_vel_x"}

\* The logged cell of entity e in row r: a length-1 list.
Cell(e, r) == IF e = "accel_x" THEN <<r % 3>> ELSE <<(r * r) % 5>>

\* Line 87: sp.signal.windows.get_window("boxcar", N)
fft_window(n) == [j \in 1..n |-> 1]

\* Line 131: pl.col(e).list.first() over the rows of the table.
Column(e, rows) == [j \in 1..Len(rows) |-> Cell(e, rows[j])[1]]

\* Line 132: pl.col(e) - pl.col(e).mean()
Detrended(col) ==
    [num |-> [j \in 1..Len(col) |-> Len(col) * col[j] - SumSeq(col)],
     den |-> Len(col)]

\* Line 122 with `<` in place of `!=`.
NotFullWindowOnlyShort(rows, n) == Len(rows) < n

\* Line 122 testing only for an empty table.
NotFullWindowOnlyEmpty(rows, n) == Len(rows) = 0

\* Line 122
NotFullWindow(rows, n) == Len(rows) # n

\* Line 140
CapReached(idx) == idx > MAXITER

\* Lines 121-141: one pass of the loop body over the table just yielded.
LoopBody ==
    /\ loop_pc = "for"
    /\ ~demand
    /\ gen_pc \in {"yield40", "yield46"}
    /\ IF NotFullWindow(yielded, num_rows)
       THEN /\ loop_pc' = "plot"
            /\ UNCHANGED <<fft_avgs, psd_avgs, i, demand>>
       ELSE LET df == [e \in entities |-> Detrended(Column(e, yielded))]
                raises == \E e \in entities :
                              \/ UpdateRaises(fft_avgs[e], df[e])
                              \/ UpdateRaises(psd_avgs[e], df[e])
            IN  /\ fft_avgs' = [e \in entities |-> Update(fft_avgs[e], df[e])]
                /\ psd_avgs' = [e \in entities |-> Update(psd_avgs[e], df[e])]
                /\ IF raises
                   THEN /\ loop_pc' = "crashed"
                        /\ UNCHANGED <<i, demand>>
                   ELSE IF CapReached(i)
                   THEN /\ loop_pc' = "plot"
                        /\ UNCHANGED <<i, demand>>
                   ELSE /\ i' = i + 1
                        /\ demand' = TRUE
                        /\ UNCHANGED loop_pc
    /\ UNCHANGED <<num_rows, range_secs, upstream, next_batch, queried,
                   filtered, batch_list, count_rows, gen_pc, yielded, out, plots>>

\* The generator is exhausted: the for statement ends.
LoopEnd ==
    /\ loop_pc = "for"
    /\ ~demand
    /\ gen_pc = "done"
    /\ loop_pc' = "plot"
    /\ UNCHANGED <<readerVars, i, fft_avgs, psd_avgs, plots>>

\* Lines 143-172: both plotting loops read every accumulator.
Plot ==
    /\ loop_pc = "plot"
    /\ plots' = [fft |-> [e \in entities |-> get_freq_domain(fft_avgs[e])],
                 psd |-> [e \in entities |-> get_freq_domain(psd_avgs[e])]]
    /\ loop_pc' = "shown"
    /\ UNCHANGED <<readerVars, i, fft_avgs, psd_avgs>>

NoAvg == [n |-> 0, sampling_freq |-> 0, rfreq_fn |-> "none", window |-> <<>>,
          values |-> <<>>, niter |-> 0]

InitReader ==
    /\ num_rows \in -1..MaxN
    /\ range_secs \in {"None", "set"}
    /\ \E sizes \in BatchSizes : upstream = MkBatches(sizes)
    /\ next_batch = 1
    /\ queried = FALSE
    /\ filtered = FALSE
    /\ batch_list = <<>>
    /\ count_rows = 0
    /\ gen_pc = "created"
    /\ demand = TRUE
    /\ yielded = <<>>
    /\ out = <<>>
    /\ i = 0
    /\ loop_pc = "none"
    /\ fft_avgs = <<>>
    /\ psd_avgs = <<>>
    /\ plots = <<>>
    /\ avg = NoAvg
    /\ ret = [call |-> "none"]
    /\ hist = EmptyBag

NextReader ==
    \/ GenStart /\ UNCHANGED <<scriptVars, avgVars>>
    \/ GenBatch /\ UNCHANGED <<scriptVars, avgVars>>
    \/ GenResume /\ UNCHANGED <<scriptVars, avgVars>>
    \/ GenLast /\ UNCHANGED <<scriptVars, avgVars>>
    \/ GenReturn /\ UNCHANGED <<scriptVars, avgVars>>
    \/ CallNext /\ UNCHANGED <<scriptVars, avgVars>>

SpecReader == InitReader /\ [][NextReader]_vars

Init ==
    /\ num_rows \in 1..MaxN
    /\ range_secs = "set"
    /\ \E sizes \in BatchSizes : upstream = MkBatches(sizes)
    /\ next_batch = 1
    /\ queried = FALSE
    /\ filtered = FALSE
    /\ batch_list = <<>>
    /\ count_rows = 0
    /\ gen_pc = "created"
    /\ demand = TRUE
    /\ yielded = <<>>
    /\ out = <<>>
    /\ i = 0
    /\ loop_pc = "for"
    /\ fft_avgs = [e \in entities |-> NewAvg(num_rows, 200, "fft_fn", fft_window(num_rows))]
    /\ psd_avgs = [e \in entities |-> NewAvg(num_rows, 200, "psd_fn", fft_window(num_rows))]
    /\ plots = <<>>
    /\ avg = NoAvg
    /\ ret = [call |-> "none"]
    /\ hist = EmptyBag

Next ==
    \/ GenStart /\ UNCHANGED <<scriptVars, avgVars>>
    \/ GenBatch /\ UNCHANGED <<scriptVars, avgVars>>
    \/ GenResume /\ UNCHANGED <<scriptVars, avgVars>>
    \/ GenLast /\ UNCHANGED <<scriptVars, avgVars>>
    \/ LoopBody /\ UNCHANGED avgVars
    \/ LoopEnd /\ UNCHANGED avgVars
    \/ Plot /\ UNCHANGED avgVars

Spec == Init /\ [][Next]_vars

(* ---------------------------------------------------------------------- *)
(* SpecAvg: a FrequencyDomainAverage called directly                       *)
(* ---------------------------------------------------------------------- *)

\* The arrays a caller may pass to update: every length from 0 to MaxLen.
Signals == UNION {[1..len -> 0..MaxSample] : len \in 0..MaxLen}

AvgUpdate ==
    /\ avg.niter < MaxUpdates
    /\ \E x \in Signals :
        LET time_domain == [num |-> x, den |-> 1]
        IN  /\ avg' = Update(avg, time_domain)
            /\ ret' = [call |-> "update", len |-> Len(x),
                       raised |-> UpdateRaises(avg, time_domain)]
            /\ hist' = IF UpdateRaises(avg, time_domain) THEN hist
                       ELSE hist (+) SetToBag({x})
    /\ UNCHANGED <<readerVars, scriptVars>>

AvgGetFreqDomain ==
    /\ ret' = [call |-> "get_freq_domain", kind |-> get_freq_domain(avg).kind]
    /\ UNCHANGED <<avg, hist, readerVars, scriptVars>>

InitAvg ==
    /\ \E n \in 0..MaxLen, len \in 0..MaxLen, fn \in {"fft_fn", "psd_fn"} :
          avg = NewAvg(n, 200, fn, fft_window(len))
    /\ ret = [call |-> "__init__"]
    /\ hist = EmptyBag
    /\ num_rows = 0
    /\ range_secs = "None"
    /\ upstream = <<>>
    /\ next_batch = 1
    /\ queried = FALSE
    /\ filtered = FALSE
    /\ batch_list = <<>>
    /\ count_rows = 0
    /\ gen_pc = "none"
    /\ demand = FALSE
    /\ yielded = <<>>
    /\ out = <<>>
    /\ i = 0
    /\ loop_pc = "none"
    /\ fft_avgs = <<>>
    /\ psd_avgs = <<>>
    /\ plots = <<>>

NextAvg == AvgUpdate \/ AvgGetFreqDomain

SpecAvg == InitAvg /\ [][NextAvg]_vars

(* ---------------------------------------------------------------------- *)
(* Properties                                                              *)
(* ---------------------------------------------------------------------- *)

\* Rows the reader yields in total, and the rows of all tables yielded so far.
AllRows == Flatten(upstream)
AllOut == Flatten([k \in 1..Len(out) |-> out[k].rows])
Yields == {"yield40", "yield46"}

\* C1: for N > 0 every table yielded inside the batch loop (line 40) has
\* exactly N rows.
C1_FullWindowsHaveNRows ==
    num_rows > 0 =>
        \A k \in 1..Len(out) :
            out[k].line = 40 => Len(out[k].rows) = num_rows

\* C2: row conservation.  For N > 0 the tables yielded so far, concatenated
\* in emission order, are always a prefix of the upstream rows (nothing
\* reordered or emitted twice), and once the generator has returned they are
\* all the upstream rows (nothing dropped).
C2_RowConservation ==
    num_rows > 0 =>
        /\ Len(AllOut) <= Len(AllRows)
        /\ AllOut = SubSeq(AllRows, 1, Len(AllOut))
        /\ gen_pc = "done" => AllOut = AllRows

\* C2 witness: a drained generator that yielded several tables, one of them
\* from inside the loop and one after it, out of batches of unequal sizes.
C2_Witness ==
    /\ num_rows > 0
    /\ gen_pc = "done"
    /\ Len(out) >= 2
    /\ out[1].line = 40
    /\ out[Len(out)].line = 46
    /\ Len(AllRows) >= 3
    /\ \E k \in 1..Len(upstream) : Len(upstream[k]) # Len(upstream[1])

\* C3: for N > 0 a drained generator has yielded R div N tables of N rows,
\* followed by one table of R mod N rows when R mod N is not 0.
C3_WindowCounts ==
    (num_rows > 0 /\ gen_pc = "done") =>
        LET R == Len(AllRows)
            full == R \div num_rows
            rest == R % num_rows
        IN  /\ Len(out) = full + (IF rest = 0 THEN 0 ELSE 1)
            /\ \A k \in 1..Len(out) :
                   Len(out[k].rows) = IF k <= full THEN num_rows ELSE rest

\* C4: end of stream.  For N > 0 the table yielded after the loop (line 46)
\* holds between 1 and N-1 rows, and no yielded table is ever empty.
C4_EndOfStream ==
    num_rows > 0 =>
        \A k \in 1..Len(out) :
            /\ Len(out[k].rows) > 0
            /\ out[k].line = 46 =>
                   /\ k = Len(out)
                   /\ Len(out[k].rows) < num_rows

\* C6: memory bound.  For N > 0 batch_list never holds more than 2N - 1 rows.
C6_PendingBound ==
    num_rows > 0 => Len(Flatten(batch_list)) <= 2 * num_rows - 1

\* C10: with N <= 0 iter_tables fails before it touches the recording: the
\* view is never built, no batch is read, no table is yielded.
C10_RejectsNonPositiveN ==
    num_rows <= 0 =>
        /\ ~queried
        /\ next_batch = 1
        /\ out = <<>>

\* C5: maxIter bound.  No accumulator is ever updated for more than MAXITER
\* windows, and a run stopped by the cap has processed exactly MAXITER.
C5_MaxIterBound ==
    \A e \in entities :
        /\ fft_avgs[e].niter <= MAXITER
        /\ psd_avgs[e].niter <= MAXITER

\* A table with fewer than N rows is in the hands of the loop body.
ShortWindowPending ==
    /\ loop_pc = "for"
    /\ ~demand
    /\ gen_pc \in Yields
    /\ Len(yielded) < num_rows

\* C7: partial-window exclusion.  The loop body that receives a table of
\* fewer than N rows ends the loop and leaves every accumulator as it was;
\* and when the whole stream has fewer than N rows every niter stays 0.
C7_PartialWindowExclusion ==
    /\ [][ShortWindowPending =>
            /\ loop_pc' = "plot"
            /\ fft_avgs' = fft_avgs
            /\ psd_avgs' = psd_avgs]_vars
    /\ [](Len(AllRows) < num_rows =>
            \A e \in entities : fft_avgs[e].niter = 0 /\ psd_avgs[e].niter = 0)

\* C7 witness: after one full window was accumulated, a shorter non-empty
\* table arrived and the loop stopped with no further update.
C7_Witness ==
    /\ loop_pc = "plot"
    /\ gen_pc = "yield46"
    /\ Len(yielded) > 0
    /\ Len(yielded) < num_rows
    /\ \A e \in entities : fft_avgs[e].niter = 1 /\ psd_avgs[e].niter = 1

\* C8: shape rejection.  On an accumulator built with n >= 1 and a window of
\* length n, update with an array whose length is not n raises and leaves
\* the accumulator (values and niter) unchanged.
C8_ShapeRejection ==
    [][(/\ avg.n >= 1
        /\ Len(avg.window) = avg.n
        /\ ret'.call = "update"
        /\ ret'.len # avg.n) =>
            /\ ret'.raised
            /\ avg' = avg]_vars

\* C9: after the plotting loops have run, nothing was read from an
\* accumulator whose niter is 0: get_freq_domain raised for it instead of
\* returning values.
C9_NoSpectrumFromEmpty ==
    loop_pc = "shown" =>
        \A e \in entities :
            /\ fft_avgs[e].niter = 0 => plots.fft[e].kind \notin {"nan", "avg"}
            /\ psd_avgs[e].niter = 0 => plots.psd[e].kind \notin {"nan", "avg"}

\* An accumulator whose configuration the constructor is said to accept.
ValidConfig(a) ==
    /\ a.n > 0
    /\ a.sampling_freq > 0
    /\ Len(a.window) = a.n

\* C11: configuration errors are caught by the constructor: no accumulator
\* with n <= 0, sampling_freq <= 0 or a window whose length is not n ever
\* serves an update or a get_freq_domain call.
C11_EagerConfigCheck ==
    ret.call \in {"update", "get_freq_domain"} => ValidConfig(avg)

\* self.rfreq_fn(x * self.window, self.sampling_freq) for the array x.
Transformed(a, x) ==
    LET w == Tapered(a, [num |-> x, den |-> 1])
    IN  IF a.rfreq_fn = "fft_fn" THEN fft_fn(w, a.sampling_freq)
        ELSE psd_fn(w, a.sampling_freq)

\* Every update so far was given the same array, of length n.
SameSignalOnly ==
    /\ ValidConfig(avg)
    /\ \E x \in BagToSet(hist) :
          /\ BagToSet(hist) = {x}
          /\ Len(x) = avg.n

\* C12: deterministic averaging.  After k >= 1 updates of a fresh
\* accumulator with the same length-n array x, niter is k, every element of
\* values is k times the transform of x * window, and get_freq_domain
\* returns that sum over k, i.e. the transform itself, whatever k is.
C12_DeterministicAveraging ==
    SameSignalOnly =>
        LET x == CHOOSE y \in BagToSet(hist) : TRUE
            k == CopiesIn(x, hist)
            T == Transformed(avg, x)
            g == get_freq_domain(avg)
        IN  /\ avg.niter = k
            /\ g.kind = "avg"
            /\ g.niter = k
            /\ Len(g.sum) = Len(T)
            /\ \A b \in 1..Len(T) :
                   /\ BagToSet(g.sum[b]) = {T[b]}
                   /\ CopiesIn(T[b], g.sum[b]) = k

\* C12 witness: the same non-zero array of length n >= 2 was accumulated at
\* least twice.
C12_Witness ==
    /\ SameSignalOnly
    /\ avg.n >= 2
    /\ BagCardinality(hist) >= 2
    /\ \E x \in BagToSet(hist) : \E j \in 1..Len(x) : x[j] # 0

\* The accumulator as its constructor left it.
Fresh(a) == NewAvg(a.n, a.sampling_freq, a.rfreq_fn, a.window)

RECURSIVE ApplyAll(_, _)
\* The accumulator after update has been called with every array of the bag
\* xs, in one fixed order.
ApplyAll(a, xs) ==
    IF xs = EmptyBag THEN a
    ELSE LET x == CHOOSE y \in BagToSet(xs) : TRUE
         IN  ApplyAll(Update(a, [num |-> x, den |-> 1]), xs (-) SetToBag({x}))

\* Every update so far was given an array of length n.
LengthNOnly ==
    /\ ValidConfig(avg)
    /\ \A x \in BagToSet(hist) : Len(x) = avg.n

\* C13: order independence.  The accumulator depends only on the multiset of
\* length-n arrays it was updated with: in whatever order they arrived, its
\* values, niter and get_freq_domain are those of a fresh accumulator updated
\* with the same arrays in one fixed order.
C13_OrderIndependence ==
    LengthNOnly =>
        LET other == ApplyAll(Fresh(avg), hist)
        IN  /\ other.values = avg.values
            /\ other.niter = avg.niter
            /\ get_freq_domain(other) = get_freq_domain(avg)

\* C13 witness: two arrays of length n >= 2 with different transforms have
\* been accumulated.
C13_Witness ==
    /\ LengthNOnly
    /\ avg.n >= 2
    /\ \E x, y \in BagToSet(hist) : Transformed(avg, x) # Transformed(avg, y)

\* C14: with range_secs left unset (and N > 0) iter_tables applies no range
\* filter and does not fail: it goes on to read batches.
C14_FilterOnlyWhenConfigured ==
    (range_secs = "None" /\ num_rows > 0) =>
        /\ ~filtered
        /\ gen_pc # "raised"

\* A table is in the hands of the loop body, which has not run on it yet.
WindowPending ==
    /\ loop_pc = "for"
    /\ ~demand
    /\ gen_pc \in Yields

\* The loop ended at line 123 on the table last yielded.
WindowRejected ==
    /\ loop_pc \in {"plot", "shown"}
    /\ gen_pc \in Yields
    /\ NotFullWindow(yielded, num_rows)

\* Number of tables the loop body has accumulated.
Processed ==
    IF WindowPending \/ WindowRejected THEN Len(out) - 1 ELSE Len(out)

\* C15: one mutation per full window and no reset.  In every state each
\* magnitude and each PSD accumulator has niter equal to the number of
\* windows processed so far, all of them of N rows; and no step lowers niter.
C15_OncePerFullWindow ==
    /\ [](/\ \A k \in 1..Processed : Len(out[k].rows) = num_rows
          /\ \A e \in entities :
                 /\ fft_avgs[e].niter = Processed
                 /\ psd_avgs[e].niter = Processed)
    /\ [][\A e \in entities :
              /\ fft_avgs'[e].niter >= fft_avgs[e].niter
              /\ psd_avgs'[e].niter >= psd_avgs[e].niter]_vars

\* C15 witness: the script has finished after processing at least two full
\* windows.
C15_Witness ==
    /\ loop_pc = "shown"
    /\ Processed >= 2
    /\ \A e \in entities : fft_avgs[e].niter >= 2 /\ psd_avgs[e].niter >= 2

\* C16: for N > 0, whenever the generator is at the top of the batch loop
\* count_rows is the number of rows held in batch_list.
C16_CountMatchesHeldRows ==
    (num_rows > 0 /\ gen_pc = "loop") =>
        count_rows = Len(Flatten(batch_list))

\* C17: only tables of exactly N rows are accumulated.  The loop body that
\* receives a table of any other size, shorter or longer, ends the loop with
\* every accumulator as it was; an accumulator only changes on a table of N
\* rows; and once the loop has ended the generator is never resumed and the
\* accumulators never change.
C17_OnlyExactWindows ==
    /\ [][(WindowPending /\ Len(yielded) # num_rows) =>
            /\ loop_pc' = "plot"
            /\ fft_avgs' = fft_avgs
            /\ psd_avgs' = psd_avgs]_vars
    /\ [][(fft_avgs' # fft_avgs \/ psd_avgs' # psd_avgs) =>
            Len(yielded) = num_rows]_vars
    /\ [][(loop_pc \in {"plot", "shown"}) =>
            /\ readerVars' = readerVars
            /\ fft_avgs' = fft_avgs
            /\ psd_avgs' = psd_avgs]_vars

\* C17 witness: after one window was accumulated, a table of more than N
\* rows ended the loop while the reader still had batches to yield.
C17_Witness ==
    /\ loop_pc = "plot"
    /\ gen_pc = "yield40"
    /\ Len(yielded) > num_rows
    /\ next_batch <= Len(upstream)
    /\ \A e \in entities : fft_avgs[e].niter = 1 /\ psd_avgs[e].niter = 1

====
